---- MODULE Spec2Model ----
(***************************************************************************)
(* Model of the chat relay handler of api/chat.js: one invocation of the   *)
(* exported async handler, stepped from one await to the next, together    *)
(* with the reflection parser parseReflectionsFromAIOutput.                *)
(*                                                                         *)
(* Texts are sequences of lexical units (words, single characters and the  *)
(* "####" delimiter); a regular expression is matched unit by unit.        *)
(* Objects are records whose DOMAIN holds exactly the supplied properties. *)
(***************************************************************************)
EXTENDS Integers, Sequences, FiniteSets, TLC

VARIABLES
    pc,                 \* position of the handler: the await it is suspended at
    req,                \* the inbound request: [method, body]
    env,                \* process.env: the set of variables that are set
    res,                \* the response object
    net,                \* external operations issued so far, with their outcome
    upstream,           \* what the fetch of the inference API resolved to
    data,               \* the parsed upstream JSON body (non-streaming)
    aiResponseContent,  \* the assistant's reply text
    reflections,        \* result of parseReflectionsFromAIOutput
    kvIndex,            \* index of the reflection whose kv.set is awaited
    chunks,             \* chunks the upstream stream has produced so far
    decoder             \* bytes the TextDecoder holds back between calls

vars == <<pc, req, env, res, net, upstream, data, aiResponseContent,
          reflections, kvIndex, chunks, decoder>>

----------------------------------------------------------------------------
(* Bounds *)

MaxPieces == 4        \* pieces a text given to the parser is made of
MaxReplyPieces == 2   \* pieces an upstream reply text is made of
MaxMessages == 2      \* length of the request's messages list
MaxChunks == 2        \* chunks an upstream stream produces
MaxChunkLen == 1      \* bytes in one chunk

----------------------------------------------------------------------------
(* Text *)

Whitespace == {" ", "\n"}
Digits == {"1", "2"}

\* Case folding of the i flag.
Upper(tok) ==
    CASE tok \in {"DETAILED", "detailed"} -> "DETAILED"
      [] tok \in {"REFLECTION", "Reflection", "reflection"} -> "REFLECTION"
      [] OTHER -> tok

RECURSIVE SkipWhile(_, _, _)
\* First position >= i whose unit is not in S (Len(t)+1 when there is none).
SkipWhile(t, i, S) ==
    IF i <= Len(t) /\ t[i] \in S THEN SkipWhile(t, i + 1, S) ELSE i

\* String.prototype.trim
Trim(s) ==
    LET first == SkipWhile(s, 1, Whitespace)
        lastNonWs == {k \in 1..Len(s) : s[k] \notin Whitespace}
    IN  IF lastNonWs = {} THEN <<>>
        ELSE SubSeq(s, first, CHOOSE k \in lastNonWs : \A j \in lastNonWs : j <= k)

\* s.split(':')[0]
SplitColonFirst(s) ==
    LET colons == {k \in 1..Len(s) : s[k] = ":"}
    IN  IF colons = {} THEN s
        ELSE SubSeq(s, 1, (CHOOSE k \in colons : \A j \in colons : k <= j) - 1)

----------------------------------------------------------------------------
(* parseReflectionsFromAIOutput *)

\* /DETAILED REFLECTION\s*\d+\s*:/i anchored at i: the position after the
\* colon, or 0 when the label does not match at i.
MatchDetailedLabel(t, i) ==
    IF /\ i + 2 <= Len(t)
       /\ Upper(t[i]) = "DETAILED"
       /\ t[i + 1] = " "
       /\ Upper(t[i + 2]) = "REFLECTION"
    THEN LET a == SkipWhile(t, i + 3, Whitespace)
             b == SkipWhile(t, a, Digits)
             c == SkipWhile(t, b, Whitespace)
         IN  IF b > a /\ c <= Len(t) /\ t[c] = ":" THEN c + 1 ELSE 0
    ELSE 0

\* /Reflection:/i anchored at i: the position after the colon, or 0.
MatchBriefLabel(t, i) ==
    IF i + 1 <= Len(t) /\ Upper(t[i]) = "REFLECTION" /\ t[i + 1] = ":"
    THEN i + 2 ELSE 0

\* Variant of the detailed lookahead without the "####" alternative.
LookaheadDetailedNoHash(t, p) ==
    \/ MatchDetailedLabel(t, p) # 0
    \/ MatchBriefLabel(t, p) # 0
    \/ p = Len(t) + 1

\* (?=DETAILED REFLECTION\s*\d+\s*:|Reflection:|####|$) at p
LookaheadDetailed(t, p) ==
    \/ MatchDetailedLabel(t, p) # 0
    \/ MatchBriefLabel(t, p) # 0
    \/ (p <= Len(t) /\ t[p] = "####")
    \/ p = Len(t) + 1

\* (?=####|$) at p
LookaheadBrief(t, p) ==
    \/ (p <= Len(t) /\ t[p] = "####")
    \/ p = Len(t) + 1

RECURSIVE LazyBodyEndDetailed(_, _)
\* ([\s\S]*?) followed by the detailed lookahead: the first position >= p
\* where the lookahead succeeds.
LazyBodyEndDetailed(t, p) ==
    IF LookaheadDetailed(t, p) THEN p ELSE LazyBodyEndDetailed(t, p + 1)

RECURSIVE LazyBodyEndBrief(_, _)
LazyBodyEndBrief(t, p) ==
    IF LookaheadBrief(t, p) THEN p ELSE LazyBodyEndBrief(t, p + 1)

RECURSIVE ExecDetailedLoop(_, _)
\* while ((match = detailedReflectionRegex.exec(aiOutput)) !== null) push(...)
\* from lastIndex on: the entries pushed.
ExecDetailedLoop(t, lastIndex) ==
    LET starts == {i \in lastIndex..Len(t) : MatchDetailedLabel(t, i) # 0}
    IN  IF starts = {} THEN <<>>
        ELSE LET i == CHOOSE k \in starts : \A j \in starts : k <= j
                 bodyStart == MatchDetailedLabel(t, i)
                 bodyEnd == LazyBodyEndDetailed(t, bodyStart)
                 match0 == SubSeq(t, i, bodyEnd - 1)
                 match1 == SubSeq(t, bodyStart, bodyEnd - 1)
             IN  <<[type |-> Trim(SplitColonFirst(match0)),
                    content |-> Trim(match1)]>>
                 \o ExecDetailedLoop(t, bodyEnd)

\* Variant of the brief scan that loops over every match, as the detailed
\* scan does.
ExecBriefAll(t) ==
    LET starts == {i \in 1..Len(t) : MatchBriefLabel(t, i) # 0}
        Entry(i) == LET bodyStart == MatchBriefLabel(t, i)
                        bodyEnd == LazyBodyEndBrief(t, bodyStart)
                    IN  [type |-> <<"BRIEF REFLECTION">>,
                         content |-> Trim(SubSeq(t, bodyStart, bodyEnd - 1))]
        RECURSIVE All(_)
        All(S) == IF S = {} THEN <<>>
                  ELSE LET i == CHOOSE k \in S : \A j \in S : k <= j
                       IN  <<Entry(i)>> \o All(S \ {i})
    IN  All(starts)

\* if ((match = briefReflectionRegex.exec(aiOutput)) !== null) push(...)
ExecBriefOnce(t) ==
    LET starts == {i \in 1..Len(t) : MatchBriefLabel(t, i) # 0}
    IN  IF starts = {} THEN <<>>
        ELSE LET i == CHOOSE k \in starts : \A j \in starts : k <= j
                 bodyStart == MatchBriefLabel(t, i)
                 bodyEnd == LazyBodyEndBrief(t, bodyStart)
             IN  <<[type |-> <<"BRIEF REFLECTION">>,
                    content |-> Trim(SubSeq(t, bodyStart, bodyEnd - 1))]>>

parseReflectionsFromAIOutput(aiOutput) ==
    ExecDetailedLoop(aiOutput, 1) \o ExecBriefOnce(aiOutput)

----------------------------------------------------------------------------
(* Inputs of the parser *)

Pieces ==
    { <<"DETAILED", " ", "REFLECTION", " ", "1", ":">>,
      <<"detailed", " ", "reflection", "2", "\n", ":">>,
      <<"DETAILED", " ", "REFLECTION", ":">>,
      <<"Reflection", ":">>,
      <<"####">>,
      <<" ">>,
      <<"x">> }

RECURSIVE TextsOf(_, _)
\* The texts made of at most n pieces of P.
TextsOf(P, n) ==
    IF n = 0 THEN {<<>>}
    ELSE LET shorter == TextsOf(P, n - 1)
         IN  shorter \cup {t \o p : t \in shorter, p \in P}

----------------------------------------------------------------------------
(* JavaScript values *)

Has(obj, field) == field \in DOMAIN obj

\* Truthiness of a property holding a string: undefined and '' are falsy.
TruthyString(obj, field) == Has(obj, field) /\ obj[field] # ""

\* Truthiness of a property holding a text (a string kept as a sequence of
\* units): undefined and the empty text are falsy.
TruthyText(obj, field) == Has(obj, field) /\ obj[field] # <<>>

\* Truthiness of a property holding an array: any array is truthy, undefined
\* is falsy.
TruthyArray(obj, field) == Has(obj, field)

\* Truthiness of a property holding a boolean.
TruthyBool(obj, field) == Has(obj, field) /\ obj[field] = TRUE

\* Truthiness of a property holding a number.
TruthyNumber(obj, field) == Has(obj, field) /\ obj[field] # 0

----------------------------------------------------------------------------
(* The response object *)

NoBody == [kind |-> "none"]

NewResponse == [statusCode |-> 200, headers |-> <<>>, body |-> NoBody,
                writes |-> <<>>, ends |-> 0]

SetHeader(r, name, value) ==
    [r EXCEPT !.headers = [n \in DOMAIN @ \cup {name} |->
                              IF n = name THEN value ELSE @[n]]]

\* res.status(code).json(obj)
Json(r, code, obj) ==
    [SetHeader(r, "Content-Type", "application/json")
        EXCEPT !.statusCode = code,
               !.body = [kind |-> "json", value |-> obj],
               !.ends = @ + 1]

\* res.status(code).end()
StatusEnd(r, code) == [r EXCEPT !.statusCode = code, !.ends = @ + 1]

\* res.write(chunk)
Write(r, bytes) == [r EXCEPT !.writes = Append(@, bytes)]

\* Variant of a path that returns without ending the response.
EndForgotten(r) == r

\* res.end()
End(r) == [r EXCEPT !.ends = @ + 1]

CorsHeaders(r) ==
    SetHeader(SetHeader(SetHeader(r,
        "Access-Control-Allow-Origin", "*"),
        "Access-Control-Allow-Methods", "GET, POST, OPTIONS"),
        "Access-Control-Allow-Headers", "Content-Type, Authorization")

StreamHeaders(r) ==
    SetHeader(SetHeader(SetHeader(SetHeader(SetHeader(SetHeader(r,
        "Content-Type", "text/event-stream"),
        "Cache-Control", "no-cache"),
        "Connection", "keep-alive"),
        "Access-Control-Allow-Origin", "*"),
        "Access-Control-Allow-Methods", "GET, POST, OPTIONS"),
        "Access-Control-Allow-Headers", "Content-Type")

\* The outer catch: res.status(500).json({error, message: error.message})
InternalError(r, message) ==
    Json(r, 500, [error |-> "Internal server error", message |-> message])

----------------------------------------------------------------------------
(* Gate, credentials and validation *)

IsPreflight(method) == method = "OPTIONS"

\* Variant of the method gate that lets GET through, as the CORS header
\* advertises.
MethodAllowedWithGet(method) == method \in {"POST", "GET"}

\* !(req.method !== 'POST')
MethodAllowed(method) == method = "POST"

ApiKeyConfigured(e) == "FIREWORKS_API_KEY" \in e

\* Variant of the memory key check that treats Mem0 as optional.
Mem0KeyOptional(e) == TRUE

Mem0KeyConfigured(e) == "MEM_API_KEY" \in e

\* Variant of the validation that checks model only.
RequiredFieldsModelOnly(body) == TruthyString(body, "model")

\* !(!model || !messages)
RequiredFieldsPresent(body) ==
    TruthyString(body, "model") /\ TruthyArray(body, "messages")

\* Variant of the order of the checks that validates the request body
\* before the credentials.
FailedCheckFieldsFirst(method, e, body) ==
    IF IsPreflight(method) THEN "preflight"
    ELSE IF ~MethodAllowed(method) THEN "method"
    ELSE IF ~RequiredFieldsPresent(body) THEN "fields"
    ELSE IF ~ApiKeyConfigured(e) THEN "apiKey"
    ELSE IF ~Mem0KeyConfigured(e) THEN "mem0Key"
    ELSE "none"

\* The first check of the handler that returns early, in the order of the
\* code: preflight, method, inference API key, memory API key, fields.
FailedCheck(method, e, body) ==
    IF IsPreflight(method) THEN "preflight"
    ELSE IF ~MethodAllowed(method) THEN "method"
    ELSE IF ~ApiKeyConfigured(e) THEN "apiKey"
    ELSE IF ~Mem0KeyConfigured(e) THEN "mem0Key"
    ELSE IF ~RequiredFieldsPresent(body) THEN "fields"
    ELSE "none"

ApiKeyError ==
    [error |-> "Server configuration error",
     message |-> "API key not configured. Please check server environment variables."]

Mem0KeyError ==
    [error |-> "Server configuration error",
     message |-> "Mem0 API key not configured."]

BadRequestError ==
    [error |-> "Bad request",
     message |-> "Missing required fields: model and messages"]

\* The response of the check that returned early.
EarlyResponse(r, failed) ==
    CASE failed = "preflight" -> StatusEnd(r, 200)
      [] failed = "method"    -> Json(r, 405, [error |-> "Method not allowed"])
      [] failed = "apiKey"    -> Json(r, 500, ApiKeyError)
      [] failed = "mem0Key"   -> Json(r, 500, Mem0KeyError)
      [] failed = "fields"    -> Json(r, 400, BadRequestError)

----------------------------------------------------------------------------
(* The upstream request *)

\* Defaults of the sampling options. temperature, top_p and the penalties
\* are counted in tenths (6 stands for 0.6), top_k and max_tokens in units.
DefaultTemperature == 6
DefaultTopP == 10
DefaultTopK == 40
DefaultMaxTokens == 4096
DefaultPresencePenalty == 0
DefaultFrequencyPenalty == 0

\* value || fallback, for a numeric option
OrNumber(body, field, fallback) ==
    IF TruthyNumber(body, field) THEN body[field] ELSE fallback

\* Variant of the tools condition that accepts an empty list.
ToolsSupplied(body) == Has(body, "tools")

\* tools && tools.length > 0
ToolsProvided(body) == Has(body, "tools") /\ Len(body.tools) > 0

\* model and messages are kept only when supplied (JSON.stringify drops the
\* undefined).
fireworksPayload(body) ==
    LET options ==
            [temperature |-> OrNumber(body, "temperature", DefaultTemperature),
             top_p |-> OrNumber(body, "top_p", DefaultTopP),
             top_k |-> OrNumber(body, "top_k", DefaultTopK),
             max_tokens |-> OrNumber(body, "max_tokens", DefaultMaxTokens),
             presence_penalty |-> OrNumber(body, "presence_penalty", DefaultPresencePenalty),
             frequency_penalty |-> OrNumber(body, "frequency_penalty", DefaultFrequencyPenalty),
             stream |-> TruthyBool(body, "stream")]
        base == [f \in DOMAIN options \cup (DOMAIN body \cap {"model", "messages"}) |->
                    IF f \in DOMAIN options THEN options[f] ELSE body[f]]
        withTools == IF ToolsProvided(body)
                     THEN [f \in DOMAIN base \cup {"tools"} |->
                              IF f = "tools" THEN body.tools ELSE base[f]]
                     ELSE base
    IN  IF ToolsProvided(body) /\ TruthyString(body, "tool_choice")
        THEN [f \in DOMAIN withTools \cup {"tool_choice"} |->
                 IF f = "tool_choice" THEN body.tool_choice ELSE withTools[f]]
        ELSE withTools

FetchOp(body) ==
    [op |-> "fetch",
     url |-> "https://api.fireworks.ai/inference/v1/chat/completions",
     payload |-> fireworksPayload(body),
     eventStream |-> TruthyBool(body, "stream"),
     result |-> "pending"]

\* response.ok
Ok(status) == 200 <= status /\ status <= 299

----------------------------------------------------------------------------
(* Non-streaming post-processing *)

\* data.choices && data.choices[0] && data.choices[0].message &&
\* data.choices[0].message.content ? data.choices[0].message.content : ''
\* (data is an object here; reading a property of null throws before this)
ExtractContent(d) ==
    IF /\ Has(d, "choices")
       /\ Len(d.choices) > 0
       /\ Has(d.choices[1], "message")
       /\ TruthyText(d.choices[1].message, "content")
    THEN d.choices[1].message.content
    ELSE <<>>

\* currentThreadId || 'unknown-thread'
ThreadId(body) ==
    IF TruthyString(body, "currentThreadId") THEN body.currentThreadId
    ELSE "unknown-thread"

\* Variant of the memory user id that shares the persistence default.
Mem0UserIdUnified(body) == ThreadId(body)

\* currentThreadId || 'default-user'
Mem0UserId(body) ==
    IF TruthyString(body, "currentThreadId") THEN body.currentThreadId
    ELSE "default-user"

\* kv.set(reflectionId, {threadId, timestamp, type, content}). The timestamp
\* and the random suffix are values of the clock and the random generator;
\* the key keeps its fixed prefix and the thread id.
KvSetOp(body, reflection) ==
    [op |-> "kv.set",
     key |-> <<"reflection", ThreadId(body)>>,
     value |-> [threadId |-> ThreadId(body),
                type |-> reflection.type,
                content |-> reflection.content],
     result |-> "pending"]

\* messages[messages.length - 1].content; undefined when the last message
\* has no content (the empty text stands for both falsy values).
UserMessageForMem0(messages) ==
    LET last == messages[Len(messages)]
    IN  IF Has(last, "content") THEN last.content ELSE <<>>

\* Variant of the memory condition that looks at the reply only.
StoreInMem0AgentOnly(userMessage, agentResponse) == agentResponse # <<>>

\* if (userMessageForMem0 && agentResponseForMem0)
StoreInMem0(userMessage, agentResponse) ==
    userMessage # <<>> /\ agentResponse # <<>>

Mem0AddOp(body, userMessage, agentResponse) ==
    [op |-> "mem0.add",
     turns |-> <<[role |-> "user", content |-> userMessage],
                 [role |-> "agent", content |-> agentResponse]>>,
     userId |-> Mem0UserId(body),
     result |-> "pending"]

\* Variant in which the operation issued is not awaited: its outcome is
\* never joined.
SettleNotAwaited(log, outcome) == log

\* The outcome of the operation awaited, recorded in the log.
Settle(log, outcome) == [log EXCEPT ![Len(log)].result = outcome]

----------------------------------------------------------------------------
(* Streaming: TextDecoder and the bytes res.write sends *)

\* Bytes: "61" is an ASCII byte, "C3" the lead byte of a two-byte sequence,
\* "A9" a continuation byte. Code points: "a", "U+00E9", "U+FFFD".
AsciiBytes == {"61"}
LeadBytes == {"C3"}
ContinuationBytes == {"A9"}

RECURSIVE DecodeStream(_, _)
\* decoder.decode(value, {stream: true}) with `held` the bytes of an
\* unfinished sequence kept from the previous call: the string decoded and
\* the bytes kept for the next call.
DecodeStream(held, bytes) ==
    IF bytes = <<>> THEN [out |-> <<>>, held |-> held]
    ELSE LET b == Head(bytes)
             Emit(cp, h, rest) ==
                 LET r == DecodeStream(h, rest)
                 IN  [out |-> cp \o r.out, held |-> r.held]
         IN  IF held = <<>>
             THEN CASE b \in AsciiBytes -> Emit(<<"a">>, <<>>, Tail(bytes))
                    [] b \in LeadBytes -> Emit(<<>>, <<b>>, Tail(bytes))
                    [] OTHER -> Emit(<<"U+FFFD">>, <<>>, Tail(bytes))
             ELSE IF b \in ContinuationBytes
                  THEN Emit(<<"U+00E9">>, <<>>, Tail(bytes))
                  ELSE Emit(<<"U+FFFD">>, <<>>, bytes)

RECURSIVE EncodeUtf8(_)
\* The bytes res.write(string) sends.
EncodeUtf8(str) ==
    IF str = <<>> THEN <<>>
    ELSE (CASE Head(str) = "a" -> <<"61">>
            [] Head(str) = "U+00E9" -> <<"C3", "A9">>
            [] OTHER -> <<"EF", "BF", "BD">>)
         \o EncodeUtf8(Tail(str))

StreamInterrupted == <<"data: {\"error\": \"Streaming interrupted\"}\n\n">>

----------------------------------------------------------------------------
(* Inputs *)

Methods == {"OPTIONS", "POST", "GET", "DELETE"}

EnvNames == {"FIREWORKS_API_KEY", "MEM_API_KEY"}

\* The objects with the property `field` absent or set to a value of V.
Optional(field, V) == {<<>>} \cup {[f \in {field} |-> v] : v \in V}

Merge(a, b) ==
    [f \in DOMAIN a \cup DOMAIN b |-> IF f \in DOMAIN a THEN a[f] ELSE b[f]]

MessageValues ==
    { [role |-> "user", content |-> <<"hello">>],
      [role |-> "assistant", content |-> <<"earlier", " ", "answer">>],
      [role |-> "user", content |-> <<>>] }

RECURSIVE ListsOf(_, _)
\* The lists of at most n elements of V.
ListsOf(V, n) ==
    IF n = 0 THEN {<<>>}
    ELSE LET shorter == ListsOf(V, n - 1)
         IN  shorter \cup {Append(l, v) : l \in shorter, v \in V}

Bodies ==
    { Merge(Merge(Merge(a, b), c), d) :
        a \in Optional("model", {"", "qwen3"}),
        b \in Optional("messages", ListsOf(MessageValues, MaxMessages)),
        c \in Optional("stream", BOOLEAN),
        d \in Optional("currentThreadId", {"thread-1"}) }

ReplyPieces ==
    { <<"DETAILED", " ", "REFLECTION", " ", "1", ":">>,
      <<"Reflection", ":">>,
      <<"####">>,
      <<"x">> }

\* The JSON bodies the upstream returns with a success status.
UpstreamData ==
    { [jsonType |-> "null"],
      [jsonType |-> "object"],
      [jsonType |-> "object", choices |-> <<>>],
      [jsonType |-> "object", choices |-> <<[finish_reason |-> "stop"]>>],
      [jsonType |-> "object", choices |-> <<[message |-> [role |-> "assistant"]]>>] }
    \cup
    { [jsonType |-> "object",
       choices |-> <<[message |-> [role |-> "assistant", content |-> t]]>>] :
        t \in TextsOf(ReplyPieces, MaxReplyPieces) }

UpstreamStatuses == {200, 429, 500}

ErrorTexts == {"", "{\"error\":\"rate limit\"}"}

Chunks == ListsOf(AsciiBytes \cup LeadBytes \cup ContinuationBytes, MaxChunkLen)

NoUpstream == [state |-> "none", status |-> 0, ok |-> FALSE, hasBody |-> FALSE,
               errorText |-> "", json |-> "none", stream |-> "none"]

NoData == [jsonType |-> "none"]

----------------------------------------------------------------------------
(* The handler *)

Init ==
    /\ pc = "start"
    /\ req \in [method : Methods, body : Bodies]
    /\ env \in SUBSET EnvNames
    /\ res = NewResponse
    /\ net = <<>>
    /\ upstream = NoUpstream
    /\ data = NoData
    /\ aiResponseContent = <<>>
    /\ reflections = <<>>
    /\ kvIndex = 0
    /\ chunks = <<>>
    /\ decoder = <<>>

WantsStream == TruthyBool(req.body, "stream")

\* Lines 4-112 and 156-160: from the call of the handler to its first await.
Invoke ==
    /\ pc = "start"
    /\ LET r == CorsHeaders(res)
           failed == FailedCheck(req.method, env, req.body)
       IN  IF failed = "none"
           THEN /\ res' = r
                /\ net' = Append(net, FetchOp(req.body))
                /\ pc' = "await_fetch"
           ELSE /\ res' = EarlyResponse(r, failed)
                /\ net' = net
                /\ pc' = "done"
    /\ UNCHANGED <<req, env, upstream, data, aiResponseContent, reflections,
                   kvIndex, chunks, decoder>>

\* fetch rejects (no connection): the outer catch answers.
FetchRejects ==
    /\ pc = "await_fetch"
    /\ net' = Settle(net, "throw")
    /\ upstream' = [upstream EXCEPT !.state = "rejected"]
    /\ res' = InternalError(res, "fetch failed")
    /\ pc' = "done"
    /\ UNCHANGED <<req, env, data, aiResponseContent, reflections, kvIndex,
                   chunks, decoder>>

\* fetch resolves with a response: lines 114-137 and 162-171.
FetchResolves ==
    /\ pc = "await_fetch"
    /\ net' = Settle(net, "ok")
    /\ \E status \in UpstreamStatuses, hasBody \in BOOLEAN :
        /\ hasBody \/ (Ok(status) /\ WantsStream)
        /\ upstream' = [upstream EXCEPT !.state = "resolved", !.status = status,
                                        !.ok = Ok(status), !.hasBody = hasBody,
                                        !.stream = IF Ok(status) /\ WantsStream /\ hasBody
                                                   THEN "open" ELSE "none"]
        /\ IF ~Ok(status)
           THEN /\ pc' = "await_text"
                /\ res' = res
           ELSE IF WantsStream
           THEN IF ~hasBody
                THEN /\ res' = Json(StreamHeaders(res), 500,
                                    [error |-> "No response body from API"])
                     /\ pc' = "done"
                ELSE /\ res' = StreamHeaders(res)
                     /\ pc' = "await_read"
           ELSE /\ pc' = "await_json"
                /\ res' = res
    /\ UNCHANGED <<req, env, data, aiResponseContent, reflections, kvIndex,
                   chunks, decoder>>

\* Variant of the relayed status that answers every upstream failure 500.
UpstreamErrorStatusAlways500(status) == 500

UpstreamErrorStatus(status) == status

\* The answer to a non-success upstream status: lines 115-120 and 163-168.
UpstreamErrorResponse(r, status, errorText) ==
    Json(r, UpstreamErrorStatus(status),
         [error |-> "API request failed", message |-> errorText])

\* response.text() resolves with the error body.
TextReturns ==
    /\ pc = "await_text"
    /\ \E errorText \in ErrorTexts :
        /\ upstream' = [upstream EXCEPT !.errorText = errorText]
        /\ res' = UpstreamErrorResponse(res, upstream.status, errorText)
    /\ pc' = "done"
    /\ UNCHANGED <<req, env, net, data, aiResponseContent, reflections,
                   kvIndex, chunks, decoder>>

\* Lines 200-217, reached when the loop over the reflections is over.
MemoryStage(d, content, log) ==
    IF ~Has(req.body, "messages") \/ Len(req.body.messages) = 0
    THEN /\ res' = InternalError(res,
                "Cannot read properties of undefined (reading 'content')")
         /\ net' = log
         /\ pc' = "done"
    ELSE IF StoreInMem0(UserMessageForMem0(req.body.messages), content)
    THEN /\ net' = Append(log,
                Mem0AddOp(req.body, UserMessageForMem0(req.body.messages), content))
         /\ res' = res
         /\ pc' = "await_mem0"
    ELSE /\ res' = Json(res, 200, d)
         /\ net' = log
         /\ pc' = "done"

\* Lines 184-198: the loop over the reflections, entered at reflection i.
KvStage(i, refl, d, content, log) ==
    IF i <= Len(refl)
    THEN /\ net' = Append(log, KvSetOp(req.body, refl[i]))
         /\ kvIndex' = i
         /\ res' = res
         /\ pc' = "await_kv"
    ELSE /\ kvIndex' = i
         /\ MemoryStage(d, content, log)

\* response.json() rejects (the body is not JSON): the outer catch answers.
JsonRejects ==
    /\ pc = "await_json"
    /\ upstream' = [upstream EXCEPT !.json = "invalid"]
    /\ res' = InternalError(res, "Unexpected token in JSON")
    /\ pc' = "done"
    /\ UNCHANGED <<req, env, net, data, aiResponseContent, reflections,
                   kvIndex, chunks, decoder>>

\* response.json() resolves: lines 171-187.
JsonReturns ==
    /\ pc = "await_json"
    /\ upstream' = [upstream EXCEPT !.json = "parsed"]
    /\ \E d \in UpstreamData :
        /\ data' = d
        /\ IF d.jsonType = "null"
           THEN /\ res' = InternalError(res,
                        "Cannot read properties of null (reading 'choices')")
                /\ pc' = "done"
                /\ UNCHANGED <<net, aiResponseContent, reflections, kvIndex>>
           ELSE /\ aiResponseContent' = ExtractContent(d)
                /\ reflections' = parseReflectionsFromAIOutput(ExtractContent(d))
                /\ KvStage(1, parseReflectionsFromAIOutput(ExtractContent(d)),
                           d, ExtractContent(d), net)
    /\ UNCHANGED <<req, env, chunks, decoder>>

\* kv.set resolves or rejects; the rejection is caught inside the loop.
KvSetReturns ==
    /\ pc = "await_kv"
    /\ \E outcome \in {"ok", "throw"} :
        KvStage(kvIndex + 1, reflections, data, aiResponseContent,
                Settle(net, outcome))
    /\ UNCHANGED <<req, env, upstream, data, aiResponseContent, reflections,
                   chunks, decoder>>

\* mem0.add resolves or rejects; the rejection is caught: lines 205-217.
Mem0AddReturns ==
    /\ pc = "await_mem0"
    /\ \E outcome \in {"ok", "throw"} : net' = Settle(net, outcome)
    /\ res' = Json(res, 200, data)
    /\ pc' = "done"
    /\ UNCHANGED <<req, env, upstream, data, aiResponseContent, reflections,
                   kvIndex, chunks, decoder>>

\* reader.read() resolves with a chunk: lines 141-145.
ReadValue ==
    /\ pc = "await_read"
    /\ Len(chunks) < MaxChunks
    /\ \E value \in Chunks :
        /\ chunks' = Append(chunks, value)
        /\ decoder' = DecodeStream(decoder, value).held
        /\ res' = Write(res, EncodeUtf8(DecodeStream(decoder, value).out))
    /\ UNCHANGED <<pc, req, env, net, upstream, data, aiResponseContent,
                   reflections, kvIndex>>

\* reader.read() resolves with done: lines 142 and 147.
ReadDone ==
    /\ pc = "await_read"
    /\ upstream' = [upstream EXCEPT !.stream = "ended"]
    /\ res' = End(res)
    /\ pc' = "done"
    /\ UNCHANGED <<req, env, net, data, aiResponseContent, reflections,
                   kvIndex, chunks, decoder>>

\* Variant of the catch that closes without the interruption event.
StreamErrorEndOnly(r) == End(r)

\* The inner catch: res.write(`data: {"error": ...}\n\n`); res.end()
StreamErrorResponse(r) == End(Write(r, StreamInterrupted))

\* reader.read() rejects: lines 148-152.
ReadRejects ==
    /\ pc = "await_read"
    /\ upstream' = [upstream EXCEPT !.stream = "errored"]
    /\ res' = StreamErrorResponse(res)
    /\ pc' = "done"
    /\ UNCHANGED <<req, env, net, data, aiResponseContent, reflections,
                   kvIndex, chunks, decoder>>

Next ==
    \/ Invoke
    \/ FetchRejects
    \/ FetchResolves
    \/ TextReturns
    \/ JsonRejects
    \/ JsonReturns
    \/ KvSetReturns
    \/ Mem0AddReturns
    \/ ReadValue
    \/ ReadDone
    \/ ReadRejects

Spec == Init /\ [][Next]_vars

----------------------------------------------------------------------------
(* The parser alone, on every text of the bound *)

InitParse ==
    /\ pc = "parse"
    /\ aiResponseContent \in TextsOf(Pieces, MaxPieces)
    /\ reflections = <<>>
    /\ req = [method |-> "POST", body |-> <<>>]
    /\ env = {}
    /\ res = NewResponse
    /\ net = <<>>
    /\ upstream = NoUpstream
    /\ data = NoData
    /\ kvIndex = 0
    /\ chunks = <<>>
    /\ decoder = <<>>

ParseText ==
    /\ pc = "parse"
    /\ reflections' = parseReflectionsFromAIOutput(aiResponseContent)
    /\ pc' = "parsed"
    /\ UNCHANGED <<req, env, res, net, upstream, data, aiResponseContent,
                   kvIndex, chunks, decoder>>

NextParse == ParseText

SpecParse == InitParse /\ [][NextParse]_vars

----------------------------------------------------------------------------
(* Properties *)

Done == pc = "done"

IsPost == req.method = "POST"

BothCredentials == EnvNames \subseteq env

\* The operations of one kind in the log, in the order issued.
OpsOf(kind) == SelectSeq(net, LAMBDA o : o.op = kind)

JsonBody(obj) == [kind |-> "json", value |-> obj]

\* C1: a POST request with the inference API key or the memory API key
\* absent from the environment is answered 500 with a server-configuration
\* error, and the invocation performs no network operation: no upstream
\* call, no key-value write, no memory-service write.
C1_MissingCredentialIs500 ==
    (IsPost /\ ~BothCredentials) =>
        /\ net = <<>>
        /\ pc \in {"start", "done"}
        /\ Done => /\ res.statusCode = 500
                   /\ res.body.kind = "json"
                   /\ res.body.value.error = "Server configuration error"
                   /\ res.ends = 1

C1_Witness ==
    /\ Done
    /\ IsPost
    /\ env = {"FIREWORKS_API_KEY"}
    /\ RequiredFieldsPresent(req.body)
    /\ res.statusCode = 500
    /\ net = <<>>

\* C2: a POST request with both credentials present and `model` absent or
\* `messages` absent is answered 400 with a message naming the missing
\* fields, and no upstream call, key-value write or memory-service write is
\* made.
C2_MissingFieldIs400 ==
    (IsPost /\ BothCredentials
        /\ (~Has(req.body, "model") \/ ~Has(req.body, "messages"))) =>
        /\ net = <<>>
        /\ pc \in {"start", "done"}
        /\ Done => /\ res.statusCode = 400
                   /\ res.body = JsonBody(
                        [error |-> "Bad request",
                         message |-> "Missing required fields: model and messages"])
                   /\ res.ends = 1

C2_Witness ==
    /\ Done
    /\ IsPost
    /\ BothCredentials
    /\ TruthyString(req.body, "model")
    /\ ~Has(req.body, "messages")
    /\ res.statusCode = 400
    /\ net = <<>>

\* C8: an OPTIONS request is answered 200 with no body, any method other
\* than POST and OPTIONS is answered 405, whatever the credentials and the
\* request body, and no upstream call, key-value write or memory-service
\* write is made.
C8_MethodGate ==
    ~IsPost =>
        /\ net = <<>>
        /\ pc \in {"start", "done"}
        /\ Done => /\ res.ends = 1
                   /\ res.writes = <<>>
                   /\ IF req.method = "OPTIONS"
                      THEN res.statusCode = 200 /\ res.body = NoBody
                      ELSE /\ res.statusCode = 405
                           /\ res.body = JsonBody([error |-> "Method not allowed"])

C8_Witness ==
    /\ Done
    /\ req.method = "GET"
    /\ BothCredentials
    /\ RequiredFieldsPresent(req.body)
    /\ res.statusCode = 405
    /\ net = <<>>

\* The non-streaming request got a success status and a JSON body.
UpstreamSucceededWithJson == upstream.json = "parsed"

WriteOps == SelectSeq(net, LAMBDA o : o.op \in {"kv.set", "mem0.add"})

\* C3: every non-streaming POST request with both credentials that passes
\* the model/messages validation and whose upstream call returns a success
\* status with a JSON body is answered 200 with that body unmodified,
\* whatever the messages list, the shape of the JSON and the outcome of the
\* key-value and memory-service writes.
C3_UpstreamSuccessIs200 ==
    (Done /\ UpstreamSucceededWithJson) =>
        /\ res.statusCode = 200
        /\ res.body = JsonBody(data)

\* The user message the handler takes: the content of the last element of
\* the messages list, when there is one.
LastMessageContent ==
    IF Has(req.body, "messages") /\ Len(req.body.messages) > 0
       /\ Has(req.body.messages[Len(req.body.messages)], "content")
    THEN req.body.messages[Len(req.body.messages)].content
    ELSE <<>>

\* C4: in the non-streaming path, when any of the key-value writes or the
\* memory-service write throws, every remaining key-value write and the
\* memory-service write are still attempted, no write is retried, and the
\* answer is still 200 with the upstream JSON body unchanged.
C4_WriteFailuresAbsorbed ==
    (Done /\ UpstreamSucceededWithJson
        /\ \E i \in 1..Len(WriteOps) : WriteOps[i].result = "throw") =>
        /\ Len(OpsOf("kv.set")) = Len(reflections)
        /\ Len(OpsOf("mem0.add")) <= 1
        /\ (LastMessageContent # <<>> /\ aiResponseContent # <<>>)
              => Len(OpsOf("mem0.add")) = 1
        /\ res.statusCode = 200
        /\ res.body = JsonBody(data)

\* C5: for a streaming request whose upstream call succeeds, the data
\* written to the caller is exactly the sequence of chunks the upstream
\* stream produced, in order and unmodified; the connection is closed when,
\* and only after, the upstream stream ends; and no key-value or
\* memory-service write is made.
C5_StreamRelayedUnmodified ==
    /\ upstream.stream = "open" => res.ends = 0
    /\ (Done /\ upstream.stream = "ended") =>
          /\ res.writes = chunks
          /\ res.ends = 1
          /\ WriteOps = <<>>

UpstreamFailed == upstream.state = "resolved" /\ ~upstream.ok

NoFurtherProcessing ==
    /\ Len(net) = 1
    /\ WriteOps = <<>>
    /\ res.writes = <<>>
    /\ chunks = <<>>
    /\ reflections = <<>>
    /\ data = NoData

ReplyPathPresent ==
    /\ Has(data, "choices")
    /\ Len(data.choices) >= 1
    /\ Has(data.choices[1], "message")
    /\ Has(data.choices[1].message, "content")
    /\ data.choices[1].message.content # <<>>

----------------------------------------------------------------------------
(* Properties of the parser *)

Parsed == pc = "parsed"

BriefType == <<"BRIEF REFLECTION">>

\* A "DETAILED REFLECTION k:" label (in any case) spans t[i..c], c being
\* the position of its colon.
IsDetailedLabelSpan(t, i, c) ==
    /\ 1 <= i /\ i + 3 <= c /\ c <= Len(t)
    /\ t[i] \in {"DETAILED", "detailed"}
    /\ t[i + 1] = " "
    /\ t[i + 2] \in {"REFLECTION", "Reflection", "reflection"}
    /\ t[c] = ":"
    /\ \E a \in (i + 3)..(c - 1) : \E b \in (a + 1)..c :
          /\ \A k \in (i + 3)..(a - 1) : t[k] \in Whitespace
          /\ \A k \in a..(b - 1) : t[k] \in Digits
          /\ \A k \in b..(c - 1) : t[k] \in Whitespace

IsDetailedLabelStart(t, i) == \E c \in i..Len(t) : IsDetailedLabelSpan(t, i, c)

\* A "Reflection:" label (in any case) starts at t[i].
IsBriefLabelStart(t, i) ==
    /\ 1 <= i /\ i + 1 <= Len(t)
    /\ t[i] \in {"REFLECTION", "Reflection", "reflection"}
    /\ t[i + 1] = ":"

DetailedLabelStarts(t) == {i \in 1..Len(t) : IsDetailedLabelStart(t, i)}

BriefLabelStarts(t) == {i \in 1..Len(t) : IsBriefLabelStart(t, i)}

Min(S) == CHOOSE k \in S : \A j \in S : k <= j

\* The k-th smallest element of S.
RECURSIVE Nth(_, _)
Nth(S, k) == IF k = 1 THEN Min(S) ELSE Nth(S \ {Min(S)}, k - 1)

\* Where the section whose label has its colon at c ends: the next detailed
\* label, "Reflection:" label or "####", or the end of the text.
DetailedSectionEnd(t, c) ==
    Min({p \in (c + 1)..(Len(t) + 1) :
            \/ p = Len(t) + 1
            \/ t[p] = "####"
            \/ IsDetailedLabelStart(t, p)
            \/ IsBriefLabelStart(t, p)})

\* Where the section whose label has its colon at c ends: the next "####",
\* or the end of the text.
BriefSectionEnd(t, c) ==
    Min({p \in (c + 1)..(Len(t) + 1) : p = Len(t) + 1 \/ t[p] = "####"})

DetailedEntries(r) == SelectSeq(r, LAMBDA e : e.type # BriefType)

BriefEntries(r) == SelectSeq(r, LAMBDA e : e.type = BriefType)

\* C9: for a text with N "DETAILED REFLECTION k:" sections (N >= 0), the
\* parser returns exactly N detailed entries, in source order, the type of
\* each being the label text before its colon and the content the trimmed
\* text between the label and the next "DETAILED REFLECTION k:" label,
\* "Reflection:" label, "####" or the end of the text.
C9_DetailedEntries ==
    Parsed =>
        LET t == aiResponseContent
            starts == DetailedLabelStarts(t)
            entries == DetailedEntries(reflections)
        IN  /\ Len(entries) = Cardinality(starts)
            /\ \A k \in 1..Len(entries) :
                  LET i == Nth(starts, k)
                      c == CHOOSE c \in i..Len(t) : IsDetailedLabelSpan(t, i, c)
                  IN  /\ entries[k].type = Trim(SubSeq(t, i, c - 1))
                      /\ entries[k].content =
                            Trim(SubSeq(t, c + 1, DetailedSectionEnd(t, c) - 1))

C9_Witness ==
    /\ Parsed
    /\ Len(DetailedEntries(reflections)) = 2
    /\ reflections[1].type = <<"DETAILED", " ", "REFLECTION", " ", "1">>
    /\ reflections[1].content = <<"x">>
    /\ reflections[2].type = <<"detailed", " ", "reflection", "2">>
    /\ \E p \in 1..Len(aiResponseContent) : aiResponseContent[p] = "####"

\* C10: the parser emits at most one "BRIEF REFLECTION" entry; when there
\* is one it is the last element, after every detailed entry, wherever the
\* "Reflection:" label stands in the text; and it is taken from the first
\* "Reflection:" section only, its body running to the next "####" or the
\* end of the text, so that a later "Reflection:" section is not extracted.
C10_BriefEntry ==
    Parsed =>
        LET t == aiResponseContent
            starts == BriefLabelStarts(t)
            n == Len(reflections)
        IN  /\ Len(BriefEntries(reflections)) = (IF starts = {} THEN 0 ELSE 1)
            /\ starts # {} =>
                  /\ reflections[n].type = BriefType
                  /\ \A k \in 1..(n - 1) : reflections[k].type # BriefType
                  /\ reflections[n].content =
                        Trim(SubSeq(t, Min(starts) + 2,
                                    BriefSectionEnd(t, Min(starts) + 1) - 1))

C10_Witness ==
    /\ Parsed
    /\ aiResponseContent = <<"Reflection", ":", "x", "####", "Reflection", ":">>
    /\ reflections = <<[type |-> BriefType, content |-> <<"x">>]>>

----------------------------------------------------------------------------
(* The upstream payload alone, on requests that supply sampling options and
   tools *)

\* Values a caller supplies: temperature, top_p and the penalties in tenths.
OptionValues ==
    [temperature |-> {0, 10},
     top_p |-> {0, 5},
     top_k |-> {0, 1},
     max_tokens |-> {0, 256},
     presence_penalty |-> {0, 5},
     frequency_penalty |-> {0, 5}]

NumericOptions == DOMAIN OptionValues

\* The objects that supply any of the numeric options.
OptionObjects ==
    {o \in UNION {[S -> UNION {OptionValues[f] : f \in NumericOptions}] :
                    S \in SUBSET NumericOptions} :
        \A f \in DOMAIN o : o[f] \in OptionValues[f]}

PayloadBodies ==
    { Merge(Merge(Merge(Merge(a, b), c), d), o) :
        a \in {[model |-> "qwen3",
                messages |-> <<[role |-> "user", content |-> <<"hello">>]>>]},
        b \in Optional("stream", BOOLEAN),
        c \in Optional("tools", {<<>>, <<"get_weather">>}),
        d \in Optional("tool_choice", {"auto"}),
        o \in OptionObjects }

InitPayload ==
    /\ pc = "start"
    /\ req \in [method : {"POST"}, body : PayloadBodies]
    /\ env = EnvNames
    /\ res = NewResponse
    /\ net = <<>>
    /\ upstream = NoUpstream
    /\ data = NoData
    /\ aiResponseContent = <<>>
    /\ reflections = <<>>
    /\ kvIndex = 0
    /\ chunks = <<>>
    /\ decoder = <<>>

NextPayload == Invoke

SpecPayload == InitPayload /\ [][NextPayload]_vars

\* The payload of the upstream request issued.
SentPayload == net[1].payload

DocumentedDefault(f) ==
    CASE f = "temperature" -> 6
      [] f = "top_p" -> 10
      [] f = "top_k" -> 40
      [] f = "max_tokens" -> 4096
      [] f = "presence_penalty" -> 0
      [] f = "frequency_penalty" -> 0

\* C11: for each of temperature, top_p, top_k, max_tokens, presence_penalty,
\* frequency_penalty and stream, the upstream payload carries the caller's
\* value whenever the caller supplied one (a supplied 0 or false included),
\* and the default (0.6, 1, 40, 4096, 0, 0, false) only when the caller
\* omitted the option.
C11_CallerValuesOverDefaults ==
    pc = "await_fetch" =>
        /\ \A f \in NumericOptions :
              SentPayload[f] = (IF Has(req.body, f) THEN req.body[f]
                                ELSE DocumentedDefault(f))
        /\ SentPayload.stream = (IF Has(req.body, "stream") THEN req.body.stream
                                 ELSE FALSE)

\* C15: `tools` is in the upstream payload if and only if the caller
\* supplied a non-empty tools list, and `tool_choice` is in it only when
\* `tools` is and the caller supplied a tool_choice; a tool_choice supplied
\* without tools, or with an empty tools list, is not forwarded.
C15_ToolsForwarding ==
    pc = "await_fetch" =>
        /\ Has(SentPayload, "tools") <=>
              (Has(req.body, "tools") /\ req.body.tools # <<>>)
        /\ Has(SentPayload, "tools") => SentPayload.tools = req.body.tools
        /\ Has(SentPayload, "tool_choice") =>
              /\ Has(SentPayload, "tools")
              /\ Has(req.body, "tool_choice")
              /\ SentPayload.tool_choice = req.body.tool_choice

C15_Witness ==
    /\ pc = "await_fetch"
    /\ Has(req.body, "tool_choice")
    /\ Has(req.body, "tools")
    /\ req.body.tools = <<>>
    /\ ~Has(SentPayload, "tool_choice")
    /\ ~Has(SentPayload, "tools")

----------------------------------------------------------------------------
(* Properties of the memory write, the stream and the order of operations *)

\* The positions of the messages with role user.
UserMessagePositions ==
    IF Has(req.body, "messages")
    THEN {i \in 1..Len(req.body.messages) : req.body.messages[i].role = "user"}
    ELSE {}

\* C12: the user turn of the memory-service write is the content of the
\* most recent message with role user of the request's messages list,
\* paired with the assistant's reply text, whatever the list (its last
\* element need not be a user message).
C12_MemoryTurnIsLastUserMessage ==
    \A i \in 1..Len(net) :
        net[i].op = "mem0.add" =>
            /\ UserMessagePositions # {}
            /\ net[i].turns[1].content =
                  req.body.messages[CHOOSE k \in UserMessagePositions :
                        \A j \in UserMessagePositions : j <= k].content
            /\ net[i].turns[2].content = aiResponseContent

\* C13: when an error occurs while the upstream stream is relayed, the
\* handler writes exactly one terminal event signalling the interruption
\* after the chunks already relayed, then closes the connection; no chunk
\* is relayed after the error, and no key-value or memory-service write
\* occurs.
C13_MidStreamError ==
    upstream.stream = "errored" =>
        LET event == <<"data: {\"error\": \"Streaming interrupted\"}\n\n">>
            n == Len(res.writes)
        IN  /\ pc = "done"
            /\ n = Len(chunks) + 1
            /\ res.writes[n] = event
            /\ \A i \in 1..(n - 1) : res.writes[i] # event
            /\ res.ends = 1
            /\ res.statusCode = 200
            /\ WriteOps = <<>>
            /\ Len(net) = 1

C13_Witness ==
    /\ upstream.stream = "errored"
    /\ Len(chunks) >= 1
    /\ res.writes[1] = <<"61">>
    /\ Len(res.writes) = Len(chunks) + 1
    /\ res.ends = 1

\* The positions in the log of the operations of one kind.
PositionsOf(kind) == {i \in 1..Len(net) : net[i].op = kind}

\* C14: within one non-streaming invocation the external operations are
\* strictly sequential: the upstream call completes before any key-value
\* write starts; the key-value writes are issued one at a time in
\* extraction order, each completing or failing before the next starts; the
\* memory-service write starts only after the last key-value write has
\* completed or failed; the response is sent only after the memory-service
\* write has completed or failed; and no two external operations are
\* outstanding at once.
C14_SequentialOperations ==
    ~WantsStream =>
        LET kv == PositionsOf("kv.set")
            mem == PositionsOf("mem0.add")
        IN  /\ \A i \in 1..Len(net) : net[i].result = "pending" => i = Len(net)
            /\ PositionsOf("fetch") \subseteq {1}
            /\ (kv \cup mem) # {} => net[1].result = "ok"
            /\ \A i \in kv : /\ i - 1 <= Len(reflections)
                             /\ net[i].value.type = reflections[i - 1].type
                             /\ net[i].value.content = reflections[i - 1].content
            /\ \A i \in mem : /\ i = Len(net)
                              /\ i = Len(reflections) + 2
                              /\ \A j \in kv : j < i /\ net[j].result # "pending"
            /\ Cardinality(mem) <= 1
            /\ res.ends >= 1 => \A i \in 1..Len(net) : net[i].result # "pending"

C14_Witness ==
    /\ ~WantsStream
    /\ Len(net) = 4
    /\ net[2].op = "kv.set" /\ net[2].result = "throw"
    /\ net[3].op = "kv.set" /\ net[3].result = "ok"
    /\ net[4].op = "mem0.add" /\ net[4].result = "pending"
    /\ res.ends = 0

----------------------------------------------------------------------------
(* Termination *)

\* Every operation awaited settles: the upstream call returns, every write
\* resolves or rejects, and the upstream stream ends or errors.
SpecLive == Init /\ [][Next]_vars /\ WF_vars(Next)

\* C17: every invocation finalizes the response exactly once: on every path
\* the response is ended once, nothing is written to it after it is ended,
\* no path returns without ending it, and, the awaited operations settling,
\* the handler always reaches a terminal responded state.
C17_FinalizedExactlyOnce ==
    /\ [](res.ends <= 1 /\ (Done <=> res.ends = 1))
    /\ [][res.ends >= 1 => res' = res]_vars
    /\ <>(Done /\ res.ends = 1)

C17_Witness ==
    /\ Done
    /\ upstream.stream = "ended"
    /\ Len(res.writes) = MaxChunks
    /\ res.ends = 1

----------------------------------------------------------------------------
(* Order of the checks *)

\* C18: the checks run in a fixed order: method gate, then inference API
\* key, then memory API key, then the model and messages fields. A request
\* missing a credential is answered 500 even when model or messages is also
\* missing, the inference key being reported before the memory key; 400 is
\* answered only when both credentials are present; and the method gate
\* answers before any of them.
C18_CheckPriority ==
    Done =>
        /\ ~IsPost => res.statusCode \in {200, 405} /\ net = <<>>
        /\ (IsPost /\ ~ApiKeyConfigured(env)) =>
              /\ res.statusCode = 500
              /\ res.body = JsonBody(ApiKeyError)
        /\ (IsPost /\ ApiKeyConfigured(env) /\ ~Mem0KeyConfigured(env)) =>
              /\ res.statusCode = 500
              /\ res.body = JsonBody(Mem0KeyError)
        /\ res.statusCode = 400 =>
              /\ IsPost
              /\ BothCredentials
              /\ ~RequiredFieldsPresent(req.body)

C18_Witness ==
    /\ Done
    /\ IsPost
    /\ env = {"MEM_API_KEY"}
    /\ ~Has(req.body, "model")
    /\ ~Has(req.body, "messages")
    /\ res.statusCode = 500
    /\ res.body = JsonBody(ApiKeyError)

====
